---- MODULE Spec2Model ----
(***************************************************************************)
(* Model of Backend/backendd.py: the POST /summarize handler and the three *)
(* functions it composes (get_video_id_from_url, get_transcript,           *)
(* summarize_with_gemini).                                                 *)
(*                                                                         *)
(* Strings are sequences of tokens.  In a URL every token is one character *)
(* except "Y", which stands for the nine characters  youtu.be/  .          *)
(***************************************************************************)
EXTENDS Integers, Sequences, FiniteSets, TLC

\* ------------------------------------------------------------------ bounds
MaxUrlLen == 5
MaxReqUrlLen == 2
MaxSegs == 2

\* --------------------------------------------------------------- alphabets
UrlTokens == {"a", "v", "=", "&", "?", "#", "/", "[", "+", "Y"}

\* Python's None, as a string no URL token sequence equals.
None == <<"None">>

\* The sequences over S of length at most n.
SeqsUpTo(S, n) == UNION {[1..k -> S] : k \in 0..n}

Urls == SeqsUpTo(UrlTokens, MaxUrlLen)

\* The URLs a request carries in the handler's specification.
RequestUrls == SeqsUpTo(UrlTokens, MaxReqUrlLen)

\* Language codes a video's transcript list may hold.
Languages == {"en-IN", "hi", "en", "fr"}

\* The .text of a transcript segment: a word, nothing, or text with a space.
SegTexts == {<<"H">>, <<>>, <<"w", " ">>}
SegmentLists == SeqsUpTo(SegTexts, MaxSegs)

\* What response.text of the model may be.
ModelTexts == {"- point one", ""}

\* --------------------------------------------------------- string helpers
\* Position of the first token of s that is in set, Len(s)+1 when there is none.
FirstIn(s, set) ==
    IF \E i \in 1..Len(s) : s[i] \in set
    THEN CHOOSE i \in 1..Len(s) : s[i] \in set /\ \A j \in 1..(i - 1) : s[j] \notin set
    ELSE Len(s) + 1

\* str.split(sep) for a one-token separator: always at least one piece.
RECURSIVE Split(_, _)
Split(s, sep) ==
    LET i == FirstIn(s, {sep})
    IN  IF i > Len(s) THEN <<s>>
        ELSE <<SubSeq(s, 1, i - 1)>> \o Split(SubSeq(s, i + 1, Len(s)), sep)

\* urllib's unquote of a query name or value after '+' became a space
\* (no '%' escape is in the alphabet).
Decode(s) == [i \in 1..Len(s) |-> IF s[i] = "+" THEN " " ELSE s[i]]

\* ------------------------------------------------ get_video_id_from_url
\* urlparse(video_url): no scheme can be present (no ':' token).  A netloc is
\* split off after a leading "//" up to the first '/', '?' or '#'; a '[' in
\* it without ']' raises ValueError("Invalid IPv6 URL").  Then the fragment is
\* cut at the first '#', and the query is what follows the first '?' of the
\* remainder.
urlparse(video_url) ==
    LET hasNetloc == Len(video_url) >= 2 /\ video_url[1] = "/" /\ video_url[2] = "/"
        afterSlashes == IF hasNetloc THEN SubSeq(video_url, 3, Len(video_url)) ELSE video_url
        delim == FirstIn(afterSlashes, {"/", "?", "#", "Y"})
        netloc == IF hasNetloc THEN SubSeq(afterSlashes, 1, delim - 1) ELSE <<>>
        rest == IF hasNetloc THEN SubSeq(afterSlashes, delim, Len(afterSlashes)) ELSE video_url
        noFragment == SubSeq(rest, 1, FirstIn(rest, {"#"}) - 1)
        q == FirstIn(noFragment, {"?"})
    IN  [raised |-> \E i \in 1..Len(netloc) : netloc[i] = "[",
         query |-> SubSeq(noFragment, q + 1, Len(noFragment))]

\* parse_qsl(query): the fields between '&'; a field without '=' or with an
\* empty value is dropped; name and value are split at the first '='.
parse_qsl(query) ==
    LET fields == Split(query, "&")
        kept == SelectSeq(fields, LAMBDA f : FirstIn(f, {"="}) < Len(f))
    IN  [i \in 1..Len(kept) |->
            LET eq == FirstIn(kept[i], {"="})
            IN  <<Decode(SubSeq(kept[i], 1, eq - 1)),
                  Decode(SubSeq(kept[i], eq + 1, Len(kept[i])))>>]

\* parse_qs(query): a dict from each name to the list of its values, in order.
parse_qs(query) ==
    LET pairs == parse_qsl(query)
        names == {pairs[i][1] : i \in 1..Len(pairs)}
    IN  [n \in names |->
            LET mine == SelectSeq(pairs, LAMBDA p : p[1] = n)
            IN  [i \in 1..Len(mine) |-> mine[i][2]]]

\* Mutant of ExtractBody: the short-link rule is tried before the v parameter.
ExtractBodyShortLinkFirst(video_url) ==
    LET params == parse_qs(urlparse(video_url).query)
    IN  IF \E i \in 1..Len(video_url) : video_url[i] = "Y"
        THEN LET pieces == Split(video_url, "Y")
             IN  Split(pieces[Len(pieces)], "?")[1]
        ELSE IF <<"v">> \in DOMAIN params THEN params[<<"v">>][1]
             ELSE None

\* The body of the try block: the value returned, None when it falls through.
ExtractBody(video_url) ==
    LET params == parse_qs(urlparse(video_url).query)
    IN  IF <<"v">> \in DOMAIN params THEN params[<<"v">>][1]
        ELSE IF \E i \in 1..Len(video_url) : video_url[i] = "Y"
             THEN LET pieces == Split(video_url, "Y")
                  IN  Split(pieces[Len(pieces)], "?")[1]
             ELSE None

\* Mutant of ExtractExcept: no except clause, the exception leaves the function.
ExtractReraise(e) == [kind |-> "raise", value |-> None, exc |-> e]

\* What the except clause of get_video_id_from_url does with an exception:
\* it is logged and None is returned.
ExtractExcept(e) == [kind |-> "return", value |-> None, exc |-> [type |-> "none", msg |-> ""]]

\* The outcome of a call: a returned value, or an exception leaving the function.
get_video_id_from_url(video_url) ==
    IF urlparse(video_url).raised
    THEN ExtractExcept([type |-> "ValueError", msg |-> "Invalid IPv6 URL"])
    ELSE [kind |-> "return", value |-> ExtractBody(video_url),
          exc |-> [type |-> "none", msg |-> ""]]

\* ----------------------------------------------------------- get_transcript
TranscriptMsg == "Could not fetch transcript. The video may not have one, or it's disabled."

\* Mutant of Join: the texts are concatenated with nothing between them.
RECURSIVE JoinNoSpace(_)
JoinNoSpace(segs) ==
    IF Len(segs) = 0 THEN <<>> ELSE segs[1] \o JoinNoSpace(Tail(segs))

\* " ".join([item.text for item in transcript_data])
RECURSIVE Join(_)
Join(segs) ==
    IF Len(segs) = 0 THEN <<>>
    ELSE IF Len(segs) = 1 THEN segs[1]
    ELSE segs[1] \o <<" ">> \o Join(Tail(segs))

\* Mutant of GetTranscriptExcept: the caught exception is raised again as it is.
GetTranscriptReraise(e) == [type |-> "Exception", msg |-> e]

\* The outer except clause of get_transcript: whatever was caught, raise this.
GetTranscriptExcept(e) == [type |-> "ValueError", msg |-> TranscriptMsg]

\* ---------------------------------------------------- summarize_with_gemini
SummaryMsg == "Error from summarization model."

\* Mutant of SummarizeExcept: the caught exception is raised again as it is.
SummarizeReraise(e) == [type |-> "Exception", msg |-> e]

\* The except clause of summarize_with_gemini.
SummarizeExcept(e) == [type |-> "ValueError", msg |-> SummaryMsg]

\* Mutant of SummarizeReturn: the text is dropped.
SummarizeReturnEmpty(text) == ""

\* return response.text
SummarizeReturn(text) == text

\* ------------------------------------------------- handle_summarize_request
InvalidUrlMsg == "Invalid YouTube URL. Could not find video ID."
InternalPrefix == "An internal error occurred: "

\* Python truthiness of video_id: None and "" are falsy.
Falsy(id) == id = None \/ id = <<>>

\* raise HTTPException(status_code=400, detail=...) inside the try block;
\* str() of it is "<status>: <detail>" (Starlette's HTTPException.__str__).
InvalidUrlException == [type |-> "HTTPException", msg |-> "400: " \o InvalidUrlMsg]

\* SummaryResponse(summary=summary), sent with status 200.
SummaryResponse(summary) == [status |-> 200, field |-> "summary", text |-> summary]

\* The two except clauses of the handler: ValueError first, then Exception.
HandlerExcept(e) ==
    IF e.type = "ValueError"
    THEN [status |-> 400, field |-> "detail", text |-> e.msg]
    ELSE [status |-> 500, field |-> "detail", text |-> InternalPrefix \o e.msg]

\* -------------------------------------------------------------------- state
VARIABLES
    video_url,        \* request.video_url
    pc,               \* the line the request is at
    video_id,         \* handler local
    transcripts,      \* get_transcript local: the languages yt.list returned
    transcript_obj,   \* get_transcript local: the language selected
    transcript_data,  \* get_transcript local: the fetched segments' texts
    transcript,       \* handler local: full_text returned by get_transcript
    modelText,        \* response.text of the model call
    summary,          \* handler local
    raised,           \* the exception that left the failing function
    cause,            \* the call whose exception was caught inside it
    calls,            \* the external calls made for this request, in order
    response          \* the HTTP response

vars == <<video_url, pc, video_id, transcripts, transcript_obj, transcript_data,
          transcript, modelText, summary, raised, cause, calls, response>>

Unset == <<"Unset">>
NoException == [type |-> "none", msg |-> ""]
NoResponse == [status |-> 0, field |-> "none", text |-> ""]

Locals0 ==
    /\ video_id = Unset
    /\ transcripts = {}
    /\ transcript_obj = "none"
    /\ transcript_data = <<>>
    /\ transcript = Unset
    /\ modelText = "unset"
    /\ summary = "unset"
    /\ raised = NoException
    /\ cause = "none"
    /\ calls = <<>>
    /\ response = NoResponse

\* One request.  Every variable is a local of the request, so a later request
\* starts from these same states.
Init ==
    /\ video_url \in RequestUrls
    /\ pc = "extract"
    /\ Locals0

\* An exception e leaves the try block of the handler.
Fail(e, why) ==
    /\ raised' = e
    /\ cause' = why
    /\ response' = HandlerExcept(e)
    /\ pc' = "done"

\* Mutant of ExtractStep: the test of video_id is missing.
ExtractStepNoCheck ==
    /\ pc = "extract"
    /\ video_id' = get_video_id_from_url(video_url).value
    /\ pc' = "list"
    /\ UNCHANGED <<video_url, transcripts, transcript_obj, transcript_data,
                   transcript, modelText, summary, raised, cause, calls, response>>

\* Lines 93-95.
ExtractStep ==
    /\ pc = "extract"
    /\ LET out == get_video_id_from_url(video_url)
       IN  IF out.kind = "raise"
           THEN /\ Fail(out.exc, "urlparse")
                /\ UNCHANGED video_id
           ELSE /\ video_id' = out.value
                /\ IF Falsy(out.value)
                   THEN Fail(InvalidUrlException, "no id")
                   ELSE /\ pc' = "list"
                        /\ UNCHANGED <<raised, cause, response>>
    /\ UNCHANGED <<video_url, transcripts, transcript_obj, transcript_data,
                   transcript, modelText, summary, calls>>

\* Lines 43-44: yt.list(video_id) raises or returns the transcript list.
ListStep ==
    /\ pc = "list"
    /\ calls' = Append(calls, "list")
    /\ \/ /\ Fail(GetTranscriptExcept("list"), "list")
          /\ UNCHANGED transcripts
       \/ /\ transcripts' \in SUBSET Languages
          /\ pc' = "find_enIN"
          /\ UNCHANGED <<raised, cause, response>>
    /\ UNCHANGED <<video_url, video_id, transcript_obj, transcript_data,
                   transcript, modelText, summary>>

\* find_transcript([lang]) succeeds exactly when the list has the language.
Found(lang) == lang \in transcripts

\* Mutant of FindEnIN: the fallback goes straight to "en".
FindEnINSkipsHi ==
    /\ pc = "find_enIN"
    /\ calls' = Append(calls, "find en-IN")
    /\ IF Found("en-IN")
       THEN transcript_obj' = "en-IN" /\ pc' = "fetch"
       ELSE pc' = "find_en" /\ UNCHANGED transcript_obj
    /\ UNCHANGED <<video_url, video_id, transcripts, transcript_data, transcript,
                   modelText, summary, raised, cause, response>>

\* Lines 46-49.
FindEnIN ==
    /\ pc = "find_enIN"
    /\ calls' = Append(calls, "find en-IN")
    /\ IF Found("en-IN")
       THEN transcript_obj' = "en-IN" /\ pc' = "fetch"
       ELSE pc' = "find_hi" /\ UNCHANGED transcript_obj
    /\ UNCHANGED <<video_url, video_id, transcripts, transcript_data, transcript,
                   modelText, summary, raised, cause, response>>

\* Lines 50-53.
FindHi ==
    /\ pc = "find_hi"
    /\ calls' = Append(calls, "find hi")
    /\ IF Found("hi")
       THEN transcript_obj' = "hi" /\ pc' = "fetch"
       ELSE pc' = "find_en" /\ UNCHANGED transcript_obj
    /\ UNCHANGED <<video_url, video_id, transcripts, transcript_data, transcript,
                   modelText, summary, raised, cause, response>>

\* Line 54: the last lookup is guarded only by the outer try.
FindEn ==
    /\ pc = "find_en"
    /\ calls' = Append(calls, "find en")
    /\ IF Found("en")
       THEN /\ transcript_obj' = "en"
            /\ pc' = "fetch"
            /\ UNCHANGED <<raised, cause, response>>
       ELSE /\ Fail(GetTranscriptExcept("lookup"), "lookup")
            /\ UNCHANGED transcript_obj
    /\ UNCHANGED <<video_url, video_id, transcripts, transcript_data, transcript,
                   modelText, summary>>

\* Mutant of FetchStep: a failed fetch falls back to the next language.
FetchStepFallsBack ==
    /\ pc = "fetch"
    /\ calls' = Append(calls, "fetch")
    /\ \/ /\ IF transcript_obj = "en"
             THEN Fail(GetTranscriptExcept("fetch"), "fetch")
             ELSE /\ pc' = IF transcript_obj = "en-IN" THEN "find_hi" ELSE "find_en"
                  /\ UNCHANGED <<raised, cause, response>>
          /\ UNCHANGED <<transcript_data, transcript>>
       \/ /\ transcript_data' \in SegmentLists
          /\ transcript' = Join(transcript_data')
          /\ pc' = "generate"
          /\ UNCHANGED <<raised, cause, response>>
    /\ UNCHANGED <<video_url, video_id, transcripts, transcript_obj, modelText, summary>>

\* Lines 56-59: fetch() raises or returns the segments; the texts are joined.
FetchStep ==
    /\ pc = "fetch"
    /\ calls' = Append(calls, "fetch")
    /\ \/ /\ Fail(GetTranscriptExcept("fetch"), "fetch")
          /\ UNCHANGED <<transcript_data, transcript>>
       \/ /\ transcript_data' \in SegmentLists
          /\ transcript' = Join(transcript_data')
          /\ pc' = "generate"
          /\ UNCHANGED <<raised, cause, response>>
    /\ UNCHANGED <<video_url, video_id, transcripts, transcript_obj, modelText, summary>>

\* Line 77: model.generate_content(prompt) raises or returns a response.
GenerateStep ==
    /\ pc = "generate"
    /\ calls' = Append(calls, "generate")
    /\ \/ Fail(SummarizeExcept("generate"), "generate")
       \/ /\ pc' = "text"
          /\ UNCHANGED <<raised, cause, response>>
    /\ UNCHANGED <<video_url, video_id, transcripts, transcript_obj, transcript_data,
                   transcript, modelText, summary>>

\* Line 78: response.text raises or yields the text, which is returned.
TextStep ==
    /\ pc = "text"
    /\ \/ /\ Fail(SummarizeExcept("text"), "text")
          /\ UNCHANGED <<modelText, summary>>
       \/ /\ modelText' \in ModelTexts
          /\ summary' = SummarizeReturn(modelText')
          /\ pc' = "return"
          /\ UNCHANGED <<raised, cause, response>>
    /\ UNCHANGED <<video_url, video_id, transcripts, transcript_obj, transcript_data,
                   transcript, calls>>

\* Lines 103-104.
ReturnStep ==
    /\ pc = "return"
    /\ response' = SummaryResponse(summary)
    /\ pc' = "done"
    /\ UNCHANGED <<video_url, video_id, transcripts, transcript_obj, transcript_data,
                   transcript, modelText, summary, raised, cause, calls>>

Next ==
    \/ ExtractStep
    \/ ListStep
    \/ FindEnIN
    \/ FindHi
    \/ FindEn
    \/ FetchStep
    \/ GenerateStep
    \/ TextStep
    \/ ReturnStep

Spec == Init /\ [][Next]_vars

\* ------------------------------------------- get_video_id_from_url on its own
\* The function applied to every URL up to MaxUrlLen tokens.
InitExtract ==
    /\ video_url \in Urls
    /\ pc = "call"
    /\ Locals0

\* One call: pc becomes "return" or "raise", video_id the value returned.
ExtractCall ==
    /\ pc = "call"
    /\ LET out == get_video_id_from_url(video_url)
       IN  /\ pc' = out.kind
           /\ video_id' = out.value
           /\ raised' = out.exc
    /\ UNCHANGED <<video_url, transcripts, transcript_obj, transcript_data,
                   transcript, modelText, summary, cause, calls, response>>

NextExtract == ExtractCall

SpecExtract == InitExtract /\ [][NextExtract]_vars

\* =================================================================== claims
\* Helpers of the statements below.
Count(s, x) == Cardinality({i \in 1..Len(s) : s[i] = x})
Last(s) == s[Len(s)]
FindCalls == {"find en-IN", "find hi", "find en"}
IsPrefix(s, t) == Len(s) <= Len(t) /\ \A i \in 1..Len(s) : s[i] = t[i]
TranscriptError == [type |-> "ValueError", msg |-> TranscriptMsg]
SummaryError == [type |-> "ValueError", msg |-> SummaryMsg]

\* The request ended inside get_transcript: the last external call made was
\* the listing, a lookup or the fetch.
GetTranscriptFailed ==
    pc = "done" /\ calls # <<>> /\ Last(calls) \in {"list", "fetch"} \cup FindCalls

\* The request ended inside summarize_with_gemini: the model was called and no
\* text came back.
ModelCallFailed ==
    pc = "done" /\ calls # <<>> /\ Last(calls) = "generate" /\ modelText = "unset"

\* C1: a request whose URL yields no video identifier (None or "") ends with
\* a 400 response whose detail is the invalid-URL message, never with a 500.
C1_InvalidUrlGives400 ==
    (pc = "done" /\ Falsy(get_video_id_from_url(video_url).value))
        => /\ response.status = 400
           /\ response.field = "detail"
           /\ response.text = InvalidUrlMsg

\* C2: when extraction, transcript fetch and the model call all succeed, the
\* request ends with a 200 response whose summary is exactly the model's text.
C2_SummaryPassedThrough ==
    (pc = "done" /\ modelText # "unset")
        => response = [status |-> 200, field |-> "summary", text |-> modelText]

C2_Witness ==
    /\ pc = "done"
    /\ video_url = <<"Y", "a">>
    /\ Len(transcript_data) = 1
    /\ modelText = "- point one"
    /\ response = [status |-> 200, field |-> "summary", text |-> "- point one"]

\* C3: whatever makes get_transcript fail (the listing raises, no lookup
\* succeeds, the fetch raises), it fails with the ValueError carrying the fixed
\* unavailability message, and the handler answers 400 with that message.
C3_SingleUnavailabilityError ==
    GetTranscriptFailed
        => /\ raised = TranscriptError
           /\ response = [status |-> 400, field |-> "detail", text |-> TranscriptMsg]

C3_Witness ==
    /\ GetTranscriptFailed
    /\ Last(calls) = "find en"
    /\ transcripts = {"fr"}
    /\ response.status = 400

\* C4: when the model call fails (generate_content raises, or reading the
\* response text raises), summarize_with_gemini fails with the ValueError
\* "Error from summarization model." and the handler answers 400 with it.
C4_ModelFailureGives400 ==
    ModelCallFailed
        => /\ raised = SummaryError
           /\ response = [status |-> 400, field |-> "detail", text |-> SummaryMsg]

C4_Witness ==
    /\ ModelCallFailed
    /\ cause = "text"
    /\ transcript # Unset
    /\ response.status = 400

RECURSIVE Offset(_, _)
Offset(segs, k) == IF k = 1 THEN 0 ELSE Offset(segs, k - 1) + Len(segs[k - 1]) + 1

C8_JoinedBySingleSpaces ==
    transcript # Unset
        => LET n == Len(transcript_data)
           IN  /\ Len(transcript) = IF n = 0 THEN 0 ELSE Offset(transcript_data, n) + Len(transcript_data[n])
               /\ \A k \in 1..n :
                     LET o == Offset(transcript_data, k)
                     IN  /\ SubSeq(transcript, o + 1, o + Len(transcript_data[k])) = transcript_data[k]
                         /\ k < n => transcript[o + Len(transcript_data[k]) + 1] = " "

C8_Witness ==
    /\ transcript_data = <<(<<"H">>), (<<"w", " ">>)>>
    /\ transcript = <<"H", " ", "w", " ">>

\* C9: the steps of a request run in the order extractor, transcript
\* fetcher, summarizer, response; a failing step goes straight to the response;
\* the transcript service is not called without an identifier, the model is not
\* called without a transcript, and no external call is made twice.
C9_LinearNoRetry ==
    LET main == SelectSeq(calls, LAMBDA c : c \notin FindCalls)
    IN  /\ IsPrefix(main, <<"list", "fetch", "generate">>)
        /\ \A c \in FindCalls : Count(calls, c) <= 1
        /\ calls # <<>> => (video_id # Unset /\ ~Falsy(video_id))
        /\ Count(calls, "fetch") = 1 => (calls[1] = "list" /\ transcript_obj \in transcripts)
        /\ Count(calls, "generate") = 1 => (transcript # Unset /\ Count(calls, "fetch") = 1)
        /\ transcript = Unset => Count(calls, "generate") = 0
        /\ raised # NoException => (pc = "done" /\ response.status # 200)
        /\ response # NoResponse <=> pc = "done"
        /\ response.status = 200 => Last(calls) = "generate"

C9_Witness ==
    /\ pc = "done"
    /\ calls = <<"list", "find en-IN", "find hi", "find en", "fetch", "generate">>
    /\ response.status = 200

\* C10: the language fallback covers only the lookups.  The fetch is called
\* at most once, no lookup follows it, and its failure ends get_transcript with
\* the unavailability error even when a lower-priority language is available.
C10_NoFallbackAfterFetch ==
    /\ Count(calls, "fetch") <= 1
    /\ \A i, j \in 1..Len(calls) : (calls[i] = "fetch" /\ i < j) => calls[j] \notin FindCalls
    /\ (calls # <<>> /\ Last(calls) = "fetch" /\ pc # "generate")
          => /\ pc = "done"
             /\ transcript = Unset
             /\ raised = TranscriptError
             /\ response.status = 400

C10_Witness ==
    /\ pc = "done"
    /\ calls # <<>>
    /\ Last(calls) = "fetch"
    /\ transcript_obj = "en-IN"
    /\ {"hi", "en"} \subseteq transcripts
    /\ raised = TranscriptError

\* ---------------------------------------- claims about get_video_id_from_url
\* The URL read token by token, without the parsing functions.
NextIn(s, from, set) ==
    IF \E j \in from..Len(s) : s[j] \in set
    THEN CHOOSE j \in from..Len(s) : s[j] \in set /\ \A k \in from..(j - 1) : s[k] \notin set
    ELSE Len(s) + 1

\* A non-empty "v=..." field starts at i: inside the query (after the first
\* '?', before the first '#'), right after that '?' or after an '&'.
VFieldAt(url, i) ==
    /\ i >= 2 /\ i + 2 <= Len(url)
    /\ url[i] = "v" /\ url[i + 1] = "=" /\ url[i + 2] \notin {"&", "#"}
    /\ NextIn(url, 1, {"?"}) < i /\ i < NextIn(url, 1, {"#"})
    /\ (i - 1 = NextIn(url, 1, {"?"}) \/ url[i - 1] = "&")

VFields(url) == {i \in 1..Len(url) : VFieldAt(url, i)}

\* The text from position i to the next '&' or '#', '+' read as a space.
ValueFrom(url, i) ==
    LET raw == SubSeq(url, i, NextIn(url, i, {"&", "#"}) - 1)
    IN  [k \in 1..Len(raw) |-> IF raw[k] = "+" THEN " " ELSE raw[k]]

HasShortLink(url) == \E i \in 1..Len(url) : url[i] = "Y"

\* What follows the last youtu.be/ up to the next '?'.
ShortLinkId(url) ==
    LET y == CHOOSE i \in 1..Len(url) : url[i] = "Y" /\ \A j \in (i + 1)..Len(url) : url[j] # "Y"
    IN  SubSeq(url, y + 1, NextIn(url, y + 1, {"?"}) - 1)

\* The host part after a leading "//" holds an unclosed '['.
ParseFails(url) ==
    /\ Len(url) >= 3 /\ url[1] = "/" /\ url[2] = "/"
    /\ \E k \in 3..Len(url) :
          url[k] = "[" /\ \A j \in 3..(k - 1) : url[j] \notin {"/", "?", "#", "Y"}

\* An identifier as the claim means it: a non-empty run of letters.
IsId(s) == s # <<>> /\ \A k \in 1..Len(s) : s[k] \in {"a", "v"}

C6_ExtractionNeverRaises ==
    pc # "call"
        => /\ pc = "return"
           /\ raised = NoException
           /\ \/ video_id = None
              \/ \A i \in 1..Len(video_id) : video_id[i] \in UrlTokens \cup {" "}
           /\ ParseFails(video_url) => video_id = None

C6_Witness ==
    /\ pc = "return"
    /\ video_url = <<"/", "/", "[", "Y", "a">>
    /\ video_id = None

====
